---- MODULE Spec2Model ----
(***************************************************************************)
(* Model of the polygon merge engine of geometry/PolygonMerge.hpp:         *)
(* PolygonMerger (AddObject, Merge, MergeRegion, MergePolygons,            *)
(* PostProcess, Clear) and PolygonMergeRunner (Run, ScheduleSubTasks).     *)
(*                                                                         *)
(* Geometry is rasterised: the plane is a GridN x GridN grid of square     *)
(* cells of side CellSize integer units, a ring is the set of cells it     *)
(* encloses, and two regions touch when two of their cells share an edge.  *)
(* Orientation, point counts, the hole reconstructor and the point         *)
(* cleaner are modelled on rings kept as point sequences, in the part      *)
(* that ends with SpecPts; SpecClean drives the same part with the point   *)
(* cleanup set.  SpecTree drives Merge over task trees of two levels.      *)
(* The index graph of topology/IndexGraph.hpp and its connected            *)
(* components are the part that ends with SpecGraph.                       *)
(***************************************************************************)
EXTENDS Integers, Sequences, FiniteSets, TLC

\* ------------------------------------------------------------------ bounds
GridN == 3
CellSize == 2
NumProps == 3
MaxObjs == 4
MaxRunObjs == 4
MaxThreads == 2
NumKids == 2
NumGrand == 1
MaxLeaf == 2
MaxHeap == 3
MaxPtsObjs == 2
MaxVerts == 4
MaxDist == 2

Props == 1..NumProps
Cells == (0..(GridN - 1)) \X (0..(GridN - 1))
\* the grid plus a one-cell margin: the unbounded outside of every ring
Plane == ((0 - 1)..GridN) \X ((0 - 1)..GridN)

\* ------------------------------------------------------------ numeric helpers
Abs(i) == IF i < 0 THEN 0 - i ELSE i

SetMin(S) == CHOOSE x \in S : \A y \in S : x <= y

SetMax(S) == CHOOSE x \in S : \A y \in S : x >= y

isPositive(num) == num > 0

\* std::numeric_limits<float_t>::epsilon(), the default tolerance of the
\* floating-point comparisons, in the area units of the model: areas and
\* thresholds are whole numbers of units here, and epsilon is below one unit
Epsilon == 0

\* math::LT for floating-point numbers, the overload the area tests use
LT(num1, num2) == num2 - num1 > Epsilon

RECURSIVE SeqSum(_)
SeqSum(s) == IF s = <<>> THEN 0 ELSE Head(s) + SeqSum(Tail(s))

Range(s) == {s[i] : i \in 1..Len(s)}

\* ------------------------------------------------------------ raster geometry
CellKey(c) == c[2] * (GridN + 2) + c[1]

Adjacent(c, d) == Abs(c[1] - d[1]) + Abs(c[2] - d[2]) = 1

\* the cells of R reachable from the cells of F through shared edges
RECURSIVE GrowFrom(_, _, _)
GrowFrom(Seen, New, R) ==
    LET More == {d \in R \ Seen : \E c \in New : Adjacent(c, d)}
    IN IF More = {} THEN Seen ELSE GrowFrom(Seen \cup More, More, R)

Grow(F, R) == GrowFrom(F, F, R)

FirstCell(R) == CHOOSE c \in R : \A d \in R : CellKey(c) <= CellKey(d)

\* the edge-connected components of R, in ascending order of their first cell
RECURSIVE ComponentSeq(_)
ComponentSeq(R) ==
    IF R = {} THEN <<>>
    ELSE LET K == Grow({FirstCell(R)}, R)
         IN <<K>> \o ComponentSeq(R \ K)

\* the bounded components of the complement of R: the rings a closed
\* polyline around R pinches off
Cavities(R) ==
    LET Out == Plane \ R
        Far == Grow({<<0 - 1, 0 - 1>>}, Out)
    IN Range(ComponentSeq(Out \ Far))

Touch(R1, R2) ==
    \/ R1 \cap R2 # {}
    \/ \E c \in R1 : \E d \in R2 : Adjacent(c, d)

\* extent of a cell set as <<xmin, ymin, xmax, ymax>> in cell indices
Extent(R) ==
    << SetMin({c[1] : c \in R}), SetMin({c[2] : c \in R}),
       SetMax({c[1] : c \in R}), SetMax({c[2] : c \in R}) >>

BoxLength(R) ==
    (SetMax({c[1] : c \in R}) - SetMin({c[1] : c \in R}) + 1) * CellSize

BoxWidth(R) ==
    (SetMax({c[2] : c \in R}) - SetMin({c[2] : c \in R}) + 1) * CellSize

Area(R) == Cardinality(R) * CellSize * CellSize

\* ------------------------------------------------------- tagged polygon record
\* PolygonWithProp: property tag, the cells inside the solid ring, and the
\* hole rings (each the set of cells it encloses)
PolygonData(prop, solid, holes) ==
    [property |-> prop, solid |-> solid, holes |-> holes]

hasHole(pd) == pd.holes # {}

\* BBox: extent of the solid united with the extent of every hole
BBox(pd) == Extent(pd.solid \cup UNION pd.holes)

\* CoveredArea: area of the solid ring alone
CoveredArea(pd) == Area(pd.solid)

\* RemoveTinyHoles with the comparison turned into "not greater than"
RemoveTinyHolesLE(pd, area) ==
    [pd EXCEPT !.holes = {h \in pd.holes : LT(area, Area(h))}]

\* RemoveTinyHoles: erase the holes whose area is less than area
RemoveTinyHoles(pd, area) ==
    [pd EXCEPT !.holes = {h \in pd.holes : ~LT(Area(h), area)}]

\* the cells a record really covers: inside the solid and in no hole
Covered(pd) == pd.solid \ UNION pd.holes

\* ------------------------------------------------------------- property map
\* m_propertyMap as a function on Props, 0 standing for "no entry"
EmptyMap == [p \in Props |-> 0]

\* lines 465-466: one-level lookup
Resolve(pmap, p) == IF pmap[p] # 0 THEN pmap[p] ELSE p

\* std::unordered_map::insert: an existing key keeps its value
MapInsert(pmap, k, v) == IF pmap[k] # 0 THEN pmap ELSE [pmap EXCEPT ![k] = v]

\* ------------------------------------------------- boolean primitive (overlay)
\* ins: sequence of [prop, solid, holes] contributions. A solid counts +1 and
\* a hole -1 for its property; a cell is covered by a property whose count
\* there is positive.
Count(ins, p, c) ==
    SeqSum([i \in 1..Len(ins) |->
        IF ins[i].property # p THEN 0
        ELSE (IF c \in ins[i].solid THEN 1 ELSE 0)
             - Cardinality({h \in ins[i].holes : c \in h})])

PropsAt(ins, c) == {p \in Props : Count(ins, p, c) > 0}

\* property_merge::merge: property set -> the cells covered by exactly it.
\* Overlay(ins) gives the property set of every cell.
Overlay(ins) == [c \in Cells |-> PropsAt(ins, c)]

MergeResultKeys(ov) == {ov[c] : c \in Cells} \ {{}}

MergeResultRegion(ov, S) == {c \in Cells : ov[c] = S}

\* order of std::set<property_type> keys in the std::map of results
LexLess(S, T) ==
    LET d == SetMin((S \ T) \cup (T \ S))
    IN IF d \in S THEN \E t \in T : t > d ELSE ~(\E x \in S : x > d)

RECURSIVE SortKeys(_)
SortKeys(Ks) ==
    IF Ks = {} THEN <<>>
    ELSE LET k == CHOOSE k \in Ks : \A j \in Ks \ {k} : LexLess(k, j)
         IN <<k>> \o SortKeys(Ks \ {k})

\* ---------------------------------------------------------- hole reconstructor
\* makePolygonData on the closed polyline around the connected region R: every
\* pinched-off ring whose bounding box is longer and wider than 1 becomes a
\* hole, the rest of the polyline is the solid ring, which encloses R and all
\* the pinched-off rings
makePolygonData(R, prop) ==
    LET rings == Cavities(R)
    IN PolygonData(prop,
                   R \cup UNION rings,
                   {h \in rings : BoxLength(h) > 1 /\ BoxWidth(h) > 1})

\* ------------------------------------------------------------- MergePolygons
\* lines 491-495: every further property of the set is mapped to the first
RECURSIVE InsertAll(_, _, _, _)
InsertAll(pmap, others, prop, i) ==
    IF i > Len(others) THEN pmap
    ELSE InsertAll(MapInsert(pmap, SetMin(others[i]), prop), others, prop,
                   i + 1)

\* lines 498-501: one record per polyline of the region R, tagged prop
MakeAll(R, prop) ==
    [i \in 1..Len(ComponentSeq(R)) |->
        makePolygonData(ComponentSeq(R)[i], prop)]

\* the loop body without the test of checkPropertyDiff: a conflict always
\* collapses
MergeOneResultUnchecked(acc, ov, S, check) ==
    IF Cardinality(S) > 1
    THEN [acc EXCEPT
             !.pmap = InsertAll(@, SortKeys({{q} : q \in S \ {SetMin(S)}}),
                                SetMin(S), 1),
             !.made = @ \o MakeAll(MergeResultRegion(ov, S), SetMin(S))]
    ELSE [acc EXCEPT !.made = @ \o MakeAll(MergeResultRegion(ov, S), SetMin(S))]

\* the loop body with the conflict recorded whatever checkPropertyDiff says
MergeOneResultRecording(acc, ov, S, check) ==
    IF Cardinality(S) > 1
    THEN [acc EXCEPT !.diffs = Append(@, [props |-> S,
                                          region |-> MergeResultRegion(ov, S)])]
    ELSE [acc EXCEPT !.made = @ \o MakeAll(MergeResultRegion(ov, S), SetMin(S))]

\* one iteration of the loop over the results (lines 477-502), acc carrying
\* the property map, the conflict list and the records made so far
MergeOneResult(acc, ov, S, check) ==
    IF Cardinality(S) > 1 /\ check
    THEN [acc EXCEPT !.diffs = Append(@, [props |-> S,
                                          region |-> MergeResultRegion(ov, S)])]
    ELSE IF Cardinality(S) > 1
    THEN [acc EXCEPT
             !.pmap = InsertAll(@, SortKeys({{q} : q \in S \ {SetMin(S)}}),
                                SetMin(S), 1),
             !.made = @ \o MakeAll(MergeResultRegion(ov, S), SetMin(S))]
    ELSE [acc EXCEPT !.made = @ \o MakeAll(MergeResultRegion(ov, S), SetMin(S))]

\* the loop of lines 477-502 over the results in key order
RECURSIVE MergeLoop(_, _, _, _, _)
MergeLoop(acc, ov, keys, i, check) ==
    IF i > Len(keys) THEN acc
    ELSE MergeLoop(MergeOneResult(acc, ov, keys[i], check), ov, keys, i + 1,
                   check)

\* lines 464-472: the inputs go into the primitive under their resolved
\* property and are deleted
MergeInputs(m, polygons) ==
    [i \in 1..Len(polygons) |->
        [m.heap[polygons[i]] EXCEPT !.property = Resolve(m.pmap, @)]]

\* the loop over the results started on an empty property map
MergeOverlayFresh(m, ov, check) ==
    MergeLoop([pmap |-> EmptyMap, diffs |-> m.diffs, made |-> <<>>], ov,
              SortKeys(MergeResultKeys(ov)), 1, check)

MergeOverlay(m, ov, check) ==
    MergeLoop([pmap |-> m.pmap, diffs |-> m.diffs, made |-> <<>>], ov,
              SortKeys(MergeResultKeys(ov)), 1, check)

MergeOutput(m, polygons, fin) ==
    [m   |-> [m EXCEPT !.heap  = @ \o fin.made,
                       !.freed = @ \cup Range(polygons),
                       !.pmap  = fin.pmap,
                       !.diffs = fin.diffs,
                       !.calls = @ + 1,
                       !.deletes = @ + Len(polygons)],
     out |-> [i \in 1..Len(fin.made) |-> Len(m.heap) + i]]

\* MergePolygons without the polygons.clear() of line 473: the inputs stay in
\* the list next to the results
MergePolygonsKeepInputs(m, polygons, check) ==
    IF Len(polygons) <= 1 THEN [m |-> m, out |-> polygons]
    ELSE [m   |-> MergeOutput(m, polygons,
                      MergeOverlay(m, Overlay(MergeInputs(m, polygons)),
                                   check)).m,
          out |-> polygons
                  \o MergeOutput(m, polygons,
                         MergeOverlay(m, Overlay(MergeInputs(m, polygons)),
                                      check)).out]

\* m: the machine state [heap, freed, pmap, diffs, objs, kids, calls,
\* deletes]; polygons: a list of record ids. Returns the new machine state
\* and the ids that replace the list. calls counts the calls that got past
\* the size test of line 461 and so read m_propertyMap; deletes counts the
\* delete expressions executed (line 471: one for every entry of the list).
MergePolygons(m, polygons, check) ==
    IF Len(polygons) <= 1 THEN [m |-> m, out |-> polygons]
    ELSE MergeOutput(m, polygons,
                     MergeOverlay(m, Overlay(MergeInputs(m, polygons)), check))

\* ------------------------------------------------------------ spatial task tree
\* The tree is the root node (m_mergeTaskTree itself), its child nodes
\* 1..NumKids and the child nodes of child 1, which a split of that child
\* makes.
\* A machine state m carries heap, freed, pmap, diffs (as MergePolygons needs
\* them) and the tree: objs (records at each node) and kids (child nodes).
Nodes == 0..(NumKids + NumGrand)

Root == SetMin(Nodes)

RECURSIVE Concat(_)
Concat(ss) == IF ss = <<>> THEN <<>> ELSE Head(ss) \o Concat(Tail(ss))

\* RectNode::GetAllObjects: the node's records, then its descendants'
RECURSIVE GetAllObjects(_, _, _)
GetAllObjects(objs, kids, n) ==
    objs[n] \o Concat([i \in 1..Len(kids[n]) |->
                          GetAllObjects(objs, kids, kids[n][i])])

RECURSIVE SubTree(_, _)
SubTree(kids, n) ==
    {n} \cup UNION {SubTree(kids, kids[n][i]) : i \in 1..Len(kids[n])}

\* RectNode::Clear: the node forgets its records and its children
NodeClear(m, n) ==
    [m EXCEPT !.objs = [k \in Nodes |->
                           IF k \in SubTree(m.kids, n) THEN <<>> ELSE @[k]],
              !.kids = [k \in Nodes |->
                           IF k \in SubTree(m.kids, n) THEN <<>> ELSE @[k]]]

\* RectNode::Build(list): the node becomes one bucket holding the list
NodeBuild(m, n, list) == [NodeClear(m, n) EXCEPT !.objs[n] = list]

\* closed boxes <<xmin, ymin, xmax, ymax>> of cell indices intersect (a shared
\* border counts)
BoxesMeet(a, b) ==
    /\ a[1] <= b[3] + 1 /\ b[1] <= a[3] + 1
    /\ a[2] <= b[4] + 1 /\ b[2] <= a[4] + 1

\* ConnectivityExtraction over the nodes' boxes: the pairs of positions
\* (1-based) in vecNodes whose boxes intersect
ConnectivityExtraction(vecNodes, nbox) ==
    {<<i, j>> \in (1..Len(vecNodes)) \X (1..Len(vecNodes)) :
        i # j /\ BoxesMeet(nbox[vecNodes[i]], nbox[vecNodes[j]])}

\* the vertices reachable from F along conn
RECURSIVE Reach(_, _, _)
Reach(F, V, conn) ==
    IF {j \in V \ F : \E i \in F : <<i, j>> \in conn} = {} THEN F
    ELSE Reach(F \cup {j \in V : \E i \in F : <<i, j>> \in conn}, V, conn)

RECURSIVE Asc(_)
Asc(T) == IF T = {} THEN <<>> ELSE <<SetMin(T)>> \o Asc(T \ {SetMin(T)})

\* topology::ConnectedComponents: vertex i goes to the list of its component's
\* label; labels are given in order of the first vertex of each component
\* the components cut down to a vertex and its neighbours
RECURSIVE ConnectedComponentsNear(_, _)
ConnectedComponentsNear(V, conn) ==
    IF V = {} THEN <<>>
    ELSE <<Asc({SetMin(V)} \cup {j \in V : <<SetMin(V), j>> \in conn})>>
         \o ConnectedComponentsNear(
                V \ ({SetMin(V)} \cup {j \in V : <<SetMin(V), j>> \in conn}),
                conn)

RECURSIVE ConnectedComponents(_, _)
ConnectedComponents(V, conn) ==
    IF V = {} THEN <<>>
    ELSE <<Asc(Reach({SetMin(V)}, V, conn))>>
         \o ConnectedComponents(V \ Reach({SetMin(V)}, V, conn), conn)

\* lines 449-455: the components with more than one member, as lists of nodes
RECURSIVE KeepGroups(_, _, _)
KeepGroups(cc, vecNodes, i) ==
    IF i > Len(cc) THEN <<>>
    ELSE (IF Len(cc[i]) > 1
          THEN << [j \in 1..Len(cc[i]) |-> vecNodes[cc[i][j]]] >>
          ELSE <<>>) \o KeepGroups(cc, vecNodes, i + 1)

\* GetOverlappedSubTaskNodes: the groups of children whose boxes are connected
GetOverlappedSubTaskNodes(kids, nbox, n) ==
    KeepGroups(ConnectedComponents(1..Len(kids[n]),
                                   ConnectivityExtraction(kids[n], nbox)),
               kids[n], 1)

\* ------------------------------------------------------------------ MergeRegion
\* FilterOutTinyHoles(polygons)
FilterOutTinyHoles(m, polygons, set) ==
    IF set.ignoreTinyHoles /\ isPositive(set.tinyHolesArea)
    THEN [m EXCEPT !.heap = [i \in 1..Len(@) |->
                                IF i \in Range(polygons)
                                THEN RemoveTinyHoles(@[i], set.tinyHolesArea)
                                ELSE @[i]]]
    ELSE m

\* the pass without subNode->Clear(): the nodes of the group keep their records
ClearAllNone(m, g, j) == m

\* lines 352-355: subNode->Clear() for every node of the group
RECURSIVE ClearAll(_, _, _)
ClearAll(m, g, j) ==
    IF j > Len(g) THEN m ELSE ClearAll(NodeClear(m, g[j]), g, j + 1)

\* lines 351-354: the records the nodes of the group hold themselves
GroupObjs(m, g) == Concat([j \in 1..Len(g) |-> m.objs[g[j]]])

GroupMerged(acc, r) == [m |-> r.m, mergedObjs |-> acc.mergedObjs \o r.out]

\* lines 349-358: every group of overlapping children is drained, cleared and
\* merged on its own
RECURSIVE MergeGroups(_, _, _, _)
MergeGroups(acc, groups, i, set) ==
    IF i > Len(groups) THEN acc
    ELSE MergeGroups(
             GroupMerged(acc,
                 MergePolygons(ClearAll(acc.m, groups[i], 1),
                               GroupObjs(acc.m, groups[i]),
                               set.checkPropertyDiff)),
             groups, i + 1, set)

\* lines 360-366: the node's records and the merged groups are merged again
\* when the node holds records of its own
MergeOwn(m, allObjs, set, n) ==
    IF m.objs[n] # <<>> THEN MergePolygons(m, allObjs, set.checkPropertyDiff)
    ELSE [m |-> m, out |-> allObjs]

\* lines 368-373: tiny holes go when something was merged; the node is rebuilt
MergeFinish(r, merged, set, n) ==
    NodeBuild(IF merged THEN FilterOutTinyHoles(r.m, r.out, set) ELSE r.m,
              n, r.out)

MergeAfterGroups(g, hasGroups, set, n) ==
    MergeFinish(MergeOwn(g.m,
                         GetAllObjects(g.m.objs, g.m.kids, n) \o g.mergedObjs,
                         set, n),
                hasGroups \/ g.m.objs[n] # <<>>, set, n)

MergeWithGroups(m, subNodeGroups, set, n) ==
    MergeAfterGroups(MergeGroups([m |-> m, mergedObjs |-> <<>>],
                                 subNodeGroups, 1, set),
                     subNodeGroups # <<>>, set, n)

\* lines 342-373 of MergeRegion: the work on the node itself, after the
\* recursion into its children
MergeRegionBody(m, nbox, set, n) ==
    MergeWithGroups(m, GetOverlappedSubTaskNodes(m.kids, nbox, n), set, n)

\* MergeRegion(node): children first (lines 336-340), then the node.
\* MergeChildren runs MergeRegion on children[i..] in order.
RECURSIVE MergeRegion(_, _, _, _)
RECURSIVE MergeChildren(_, _, _, _, _)
MergeChildren(m, nbox, set, children, i) ==
    IF i > Len(children) THEN m
    ELSE MergeChildren(MergeRegion(m, nbox, set, children[i]), nbox, set,
                       children, i + 1)

MergeRegion(m, nbox, set, n) ==
    MergeRegionBody(MergeChildren(m, nbox, set, m.kids[n], 1), nbox, set, n)

\* MergeRegion without the recursion into the children: the node body alone
PostOrderNodeOnly(kids, n) == <<n>>

\* the order in which the sequential recursion reaches the node bodies
RECURSIVE PostOrder(_, _)
PostOrder(kids, n) ==
    Concat([i \in 1..Len(kids[n]) |-> PostOrder(kids, kids[n][i])]) \o <<n>>

\* ------------------------------------------------------------------- settings
\* MergeSettings with its default member initialisers
DefaultSettings ==
    [cleanPolyonPoints |-> FALSE, checkPropertyDiff |-> FALSE,
     ignoreTinySolid |-> FALSE, ignoreTinyHoles |-> FALSE,
     tinySolidArea |-> 0, tinyHolesArea |-> 0, cleanPointDist |-> 0,
     mergeThreashold |-> 1024]

CellArea == CellSize * CellSize

\* the values of mergeThreashold in use: the default, which no input list of
\* the model exceeds, and a small one that makes the tree split
Thresholds == {DefaultSettings.mergeThreashold, MaxLeaf}

\* the settings SetMergeSettings is called with
SettingsChoices ==
    { [s EXCEPT !.mergeThreashold = t] :
        s \in { DefaultSettings,
                [DefaultSettings EXCEPT !.checkPropertyDiff = TRUE],
                [DefaultSettings EXCEPT !.ignoreTinySolid = TRUE,
                                        !.tinySolidArea = 2 * CellArea],
                [DefaultSettings EXCEPT !.ignoreTinyHoles = TRUE,
                                        !.tinyHolesArea = CellArea],
                [DefaultSettings EXCEPT !.ignoreTinyHoles = TRUE,
                                        !.tinyHolesArea = CellArea + 1] },
        t \in Thresholds }

\* the settings SetMergeSettings is called with before a parallel Run
RunSettingsChoices ==
    { [s EXCEPT !.mergeThreashold = t] :
        s \in { DefaultSettings,
                [DefaultSettings EXCEPT !.checkPropertyDiff = TRUE],
                [DefaultSettings EXCEPT !.ignoreTinySolid = TRUE,
                                        !.tinySolidArea = 2 * CellArea] },
        t \in {MaxLeaf} }

\* ----------------------------------------------------------------- the inputs
Rect(x0, y0, x1, y1) == {c \in Cells : x0 <= c[1] /\ c[1] <= x1
                                       /\ y0 <= c[2] /\ c[2] <= y1}

SqA == Rect(0, 0, 1, 1)

SqB == Rect(1, 1, 2, 2)

Cap == Rect(1, 2, 1, 2)

\* a U-shaped polygon, open at the top, that Cap closes into a ring
UShape == Rect(0, 0, 2, 2) \ Rect(1, 1, 1, 2)

\* (property, Box2D) arguments of AddObject: two overlapping squares with
\* different properties, and a unit square inside the second that touches the
\* first, under two properties
BoxInputs == { <<1, SqA>>, <<3, SqB>>, <<1, Cap>>, <<2, Cap>> }

\* (property, Polygon2D) arguments of AddObject
PolygonInputs == { <<1, UShape>> }

\* (property, PolygonWithHoles2D) arguments of AddObject
PwhInputs ==
    { <<1, [outline |-> Rect(0, 0, 2, 2), holes |-> {Rect(1, 1, 1, 1)}]>> }

\* two bars along the bottom and the top row, whose boxes keep apart, and the
\* right end of the bottom bar
BarLow == Rect(0, 0, 1, 0)

BarTip == Rect(1, 0, 1, 0)

BarHigh == Rect(0, 2, 1, 2)

\* the arguments of AddObject before a parallel Run
RunInputs == { <<1, BarLow>>, <<2, BarTip>>, <<1, BarHigh>>, <<2, BarHigh>> }

\* -------------------------------------------------------------------- state
VARIABLES
    m_mergeSettings,  \* MergeSettings
    m_bbox,           \* aggregate box, <<>> while invalid
    m_datas,          \* pending input list (record ids)
    m_propertyMap,    \* property map
    m_propDiffAreas,  \* conflict records
    heap,             \* every PolygonData ever allocated, by id
    freed,            \* ids that were deleted
    objs, kids, nbox, \* m_mergeTaskTree: records, children and box per node
    pc,               \* where the caller is: idle, region, tasks, done
    todo,             \* Merge: node bodies the recursion has still to run
    task,             \* Run: state of the task of each node
    precede,          \* Run: edges <<t, successor>> of the task flow
    m_threads,        \* Run: size of the worker pool
    inputs,           \* history: the records the running merge started from
    split,            \* history: the sizes the tree build gave the children
    graph,            \* a SparseIndexGraph: number of vertices and edges
    components        \* the components ConnectedComponents wrote last

vars == << m_mergeSettings, m_bbox, m_datas, m_propertyMap, m_propDiffAreas,
           heap, freed, objs, kids, nbox, pc, todo, task, precede, m_threads,
           inputs, split, graph, components >>

NoTree == [n \in Nodes |-> <<>>]

NoTasks == [n \in Nodes |-> "none"]

Init ==
    /\ m_mergeSettings = DefaultSettings
    /\ m_bbox = <<>>
    /\ m_datas = <<>>
    /\ m_propertyMap = EmptyMap
    /\ m_propDiffAreas = <<>>
    /\ heap = <<>>
    /\ freed = {}
    /\ objs = NoTree /\ kids = NoTree /\ nbox = NoTree
    /\ pc = "idle"
    /\ todo = <<>>
    /\ task = NoTasks
    /\ precede = {}
    /\ m_threads = 0
    /\ inputs = <<>>
    /\ split = <<>>
    /\ graph = [n |-> 0, edges |-> {}]
    /\ components = <<>>

\* the machine state the merge operators work on, and its write-back
Machine ==
    [heap |-> heap, freed |-> freed, pmap |-> m_propertyMap,
     diffs |-> m_propDiffAreas, objs |-> objs, kids |-> kids, calls |-> 0,
     deletes |-> 0]

Install(m) ==
    /\ heap' = m.heap
    /\ freed' = m.freed
    /\ m_propertyMap' = m.pmap
    /\ m_propDiffAreas' = m.diffs
    /\ objs' = m.objs
    /\ kids' = m.kids

\* ------------------------------------------------------------------- facade
SetMergeSettings(s) ==
    /\ pc = "idle" /\ m_datas = <<>>
    /\ m_mergeSettings' = s
    /\ UNCHANGED << m_bbox, m_datas, m_propertyMap, m_propDiffAreas, heap,
                    freed, objs, kids, nbox, pc, todo, task, precede,
                    m_threads, inputs,
                    split, graph, components >>

BoxUnion(a, b) ==
    IF a = <<>> THEN b
    ELSE IF b = <<>> THEN a
    ELSE << SetMin({a[1], b[1]}), SetMin({a[2], b[2]}),
            SetMax({a[3], b[3]}), SetMax({a[4], b[4]}) >>

\* AddPolygonData: normalise (orientation is not part of the raster), grow the
\* aggregate box, append to the pending list
AddPolygonData(pd) ==
    /\ pc \in {"idle", "done"}
    /\ heap' = Append(heap, pd)
    /\ m_datas' = Append(m_datas, Len(heap) + 1)
    /\ m_bbox' = BoxUnion(m_bbox, BBox(pd))
    /\ UNCHANGED << m_mergeSettings, m_propertyMap, m_propDiffAreas, freed,
                    objs, kids, nbox, pc, todo, task, precede, m_threads,
                    inputs,
                    split, graph, components >>

AddObjectBox(property, box) == AddPolygonData(PolygonData(property, box, {}))

AddObjectPolygon(property, polygon) ==
    AddPolygonData(PolygonData(property, polygon, {}))

AddObjectPwh(property, pwh) ==
    AddPolygonData(PolygonData(property, pwh.outline, pwh.holes))

\* GetAllPolygons: the tree's records, or the pending list when there are none
GetAllPolygons(m, datas) ==
    IF GetAllObjects(m.objs, m.kids, Root) = <<>> THEN datas
    ELSE GetAllObjects(m.objs, m.kids, Root)

\* --------------------------------------------------------------- PreProcess
\* RectTree::Build(m_datas, threshold) with split sizes cnt: child i takes the
\* next cnt[i] records of the list, the root keeps the rest; a child exists
\* when it holds records, and its box is the extent of what it holds. A list
\* of at most threshold records stays in one bucket at the root; a longer
\* one is split, and a leaf holds at most threshold records.
SplitChoices(len, threshold) ==
    {cnt \in [1..NumKids -> 0..len] :
        /\ SeqSum(cnt) <= len
        /\ \A i \in 1..(NumKids - 1) : cnt[i + 1] > 0 => cnt[i] > 0
        /\ len <= threshold => \A i \in 1..NumKids : cnt[i] = 0
        /\ len > threshold => cnt[1] > 0
        /\ \A i \in 1..NumKids : cnt[i] <= threshold}

SplitStart(cnt, i) == SeqSum(SubSeq(cnt, 1, i - 1))

TreeObjs(datas, cnt) ==
    [n \in Nodes |->
        IF n = Root
        THEN SubSeq(datas, SeqSum(cnt) + 1, Len(datas))
        ELSE IF n > NumKids THEN <<>>
        ELSE SubSeq(datas, SplitStart(cnt, n) + 1, SplitStart(cnt, n) + cnt[n])]

TreeKids(cnt) ==
    [n \in Nodes |->
        IF n = Root
        THEN LET RECURSIVE Used(_)
                 Used(i) == IF i > NumKids \/ cnt[i] = 0 THEN <<>>
                            ELSE <<i>> \o Used(i + 1)
             IN Used(1)
        ELSE <<>>]

TreeBoxes(datas, cnt, bbox) ==
    [n \in Nodes |->
        IF n = Root THEN bbox
        ELSE IF TreeObjs(datas, cnt)[n] = <<>> THEN <<>>
        ELSE Extent(UNION {heap[i].solid \cup UNION heap[i].holes :
                              i \in Range(TreeObjs(datas, cnt)[n])})]

\* BuildTaskTree: SetBBox, Build, m_datas.clear()
BuildTaskTree(cnt) ==
    /\ objs' = TreeObjs(m_datas, cnt)
    /\ kids' = TreeKids(cnt)
    /\ nbox' = TreeBoxes(m_datas, cnt, m_bbox)
    /\ m_datas' = <<>>

\* PreProcess on raster records: cleanPointDist is 0 in every setting used on
\* them, so no CleanPolygons (the test itself is CleansBefore)
PreProcess(cnt) ==
    /\ BuildTaskTree(cnt)
    /\ inputs' = [i \in 1..Len(m_datas) |-> heap[m_datas[i]]]
    /\ split' = cnt

\* --------------------------------------------------------------- PostProcess
\* FilterOutTinyArea(polygons) that removes nothing
FilterOutTinyAreaNone(m, polygons, set) == [m |-> m, out |-> polygons]

\* FilterOutTinyArea(polygons): delete the records whose covered area is less
\* than tinySolidArea
FilterOutTinyAreaList(m, polygons, set) ==
    IF set.ignoreTinySolid /\ isPositive(set.tinySolidArea)
    THEN LET tiny == {i \in Range(polygons) :
                         LT(CoveredArea(m.heap[i]), set.tinySolidArea)}
         IN [m   |-> [m EXCEPT !.freed = @ \cup tiny,
                               !.deletes = @ + Len(SelectSeq(polygons,
                                                LAMBDA i : i \in tiny))],
             out |-> SelectSeq(polygons, LAMBDA i : i \notin tiny)]
    ELSE [m |-> m, out |-> polygons]

\* FilterOutTinyArea(): over all polygons, then Build(polygons, 0)
FilterOutTinyArea(m, datas, set) ==
    LET r == FilterOutTinyAreaList(m, GetAllPolygons(m, datas), set)
    IN NodeBuild(r.m, Root, r.out)

PostProcess(m, datas, set) ==
    IF set.ignoreTinySolid /\ isPositive(set.tinySolidArea)
    THEN FilterOutTinyArea(m, datas, set)
    ELSE m

\* ------------------------------------------------------ Merge (single thread)
MergeBegin(cnt) ==
    /\ pc \in {"idle", "done"}
    /\ PreProcess(cnt)
    /\ todo' = PostOrder(TreeKids(cnt), Root)
    /\ pc' = "region"
    /\ UNCHANGED << m_mergeSettings, m_bbox, m_propertyMap, m_propDiffAreas,
                    heap, freed, task, precede, m_threads, graph, components >>

MergeRegionStep ==
    /\ pc = "region" /\ todo # <<>>
    /\ Install(MergeRegionBody(Machine, nbox, m_mergeSettings, Head(todo)))
    /\ todo' = Tail(todo)
    /\ UNCHANGED << m_mergeSettings, m_bbox, m_datas, nbox, pc, task, precede,
                    m_threads, inputs,
                    split, graph, components >>

MergeEnd ==
    /\ pc = "region" /\ todo = <<>>
    /\ Install(PostProcess(Machine, m_datas, m_mergeSettings))
    /\ pc' = "done"
    /\ UNCHANGED << m_mergeSettings, m_bbox, m_datas, nbox, todo, task,
                    precede, m_threads, inputs,
                    split, graph, components >>

\* ------------------------------------------------------- PolygonMergeRunner
\* ScheduleSubTasks without the Precede call: the tasks are unordered
ScheduleSubTasksUnordered(ks, parent) == {}

\* ScheduleSubTasks: one task per child, preceding the parent's task
RECURSIVE ScheduleSubTasks(_, _)
ScheduleSubTasks(ks, parent) ==
    UNION {{<<ks[parent][i], parent>>} \cup ScheduleSubTasks(ks, ks[parent][i]) :
              i \in 1..Len(ks[parent])}

\* Run, up to the start of the executor
RunBegin(threads, cnt) ==
    /\ pc \in {"idle", "done"}
    /\ PreProcess(cnt)
    /\ precede' = ScheduleSubTasks(TreeKids(cnt), Root)
    /\ task' = [n \in Nodes |->
                   IF n \in SubTree(TreeKids(cnt), Root) THEN "wait" ELSE "none"]
    /\ m_threads' = threads
    /\ pc' = "tasks"
    /\ UNCHANGED << m_mergeSettings, m_bbox, m_propertyMap, m_propDiffAreas,
                    heap, freed, todo, graph, components >>

Active == {n \in Nodes : task[n] \in {"run", "map"}}

\* a worker takes a task whether its predecessors are done or not
TaskStartAny(n) ==
    /\ pc = "tasks" /\ task[n] = "wait"
    /\ Cardinality(Active) < m_threads
    /\ task' = [task EXCEPT ![n] = "run"]
    /\ UNCHANGED << m_mergeSettings, m_bbox, m_datas, m_propertyMap,
                    m_propDiffAreas, heap, freed, objs, kids, nbox, pc, todo,
                    precede, m_threads, inputs,
                    split, graph, components >>

\* a worker takes a task all of whose predecessors are done
TaskStart(n) ==
    /\ pc = "tasks" /\ task[n] = "wait"
    /\ \A e \in precede : e[2] = n => task[e[1]] = "done"
    /\ Cardinality(Active) < m_threads
    /\ task' = [task EXCEPT ![n] = "run"]
    /\ UNCHANGED << m_mergeSettings, m_bbox, m_datas, m_propertyMap,
                    m_propDiffAreas, heap, freed, objs, kids, nbox, pc, todo,
                    precede, m_threads, inputs,
                    split, graph, components >>

\* the task's MergeRegion reaches a MergePolygons call that reads and writes
\* m_propertyMap and m_propDiffAreas
TouchesMap(n) == MergeRegion(Machine, nbox, m_mergeSettings, n).calls > 0

TaskEnterMerge(n) ==
    /\ pc = "tasks" /\ task[n] = "run"
    /\ TouchesMap(n)
    /\ task' = [task EXCEPT ![n] = "map"]
    /\ UNCHANGED << m_mergeSettings, m_bbox, m_datas, m_propertyMap,
                    m_propDiffAreas, heap, freed, objs, kids, nbox, pc, todo,
                    precede, m_threads, inputs,
                    split, graph, components >>

\* the task body MergeRegion(node) returns
TaskFinish(n) ==
    /\ pc = "tasks"
    /\ \/ task[n] = "map"
       \/ task[n] = "run" /\ ~TouchesMap(n)
    /\ Install(MergeRegion(Machine, nbox, m_mergeSettings, n))
    /\ task' = [task EXCEPT ![n] = "done"]
    /\ UNCHANGED << m_mergeSettings, m_bbox, m_datas, nbox, pc, todo, precede,
                    m_threads, inputs,
                    split, graph, components >>

\* Run that waits for a task of every node, also of the nodes the tree does
\* not have
RunEndEveryNode ==
    /\ pc = "tasks"
    /\ \A n \in Nodes : task[n] = "done"
    /\ Install(PostProcess(Machine, m_datas, m_mergeSettings))
    /\ pc' = "done"
    /\ UNCHANGED << m_mergeSettings, m_bbox, m_datas, nbox, todo, task,
                    precede, m_threads, inputs,
                    split, graph, components >>

\* the executor has drained the flow: PostProcess on the calling thread
RunEnd ==
    /\ pc = "tasks"
    /\ \A n \in Nodes : task[n] \in {"none", "done"}
    /\ Install(PostProcess(Machine, m_datas, m_mergeSettings))
    /\ pc' = "done"
    /\ UNCHANGED << m_mergeSettings, m_bbox, m_datas, nbox, todo, task,
                    precede, m_threads, inputs,
                    split, graph, components >>

\* ---------------------------------------------------------------------- Clear
\* the records that are allocated and not deleted
Live(m) == (1..Len(m.heap)) \ m.freed

\* Clear: delete every polygon GetAllPolygons returns, then empty everything.
\* The deleted records leave the heap; a record that is live and not among
\* those GetAllPolygons returns stays allocated, and nothing refers to it.
Clear ==
    /\ pc \in {"idle", "done"}
    /\ heap # <<>>
    /\ m_datas' = <<>>
    /\ m_propertyMap' = EmptyMap
    /\ m_propDiffAreas' = <<>>
    /\ objs' = NoTree /\ kids' = NoTree /\ nbox' = NoTree
    /\ m_bbox' = <<>>
    /\ heap' = [k \in 1..Len(Asc(Live(Machine)
                                    \ Range(GetAllPolygons(Machine, m_datas))))
                   |-> heap[Asc(Live(Machine)
                                \ Range(GetAllPolygons(Machine, m_datas)))[k]]]
    /\ freed' = {}
    /\ pc' = "idle"
    /\ todo' = <<>> /\ task' = NoTasks /\ precede' = {} /\ m_threads' = 0
    /\ inputs' = <<>> /\ split' = <<>>
    /\ UNCHANGED << m_mergeSettings, graph, components >>

\* ---------------------------------------------------------------- behaviours
\* the facade driven by one thread through one life cycle at a time:
\* settings, AddObject, Merge, Clear
Next ==
    \/ \E s \in SettingsChoices : SetMergeSettings(s)
    \/ /\ pc = "idle" /\ Len(m_datas) < MaxObjs
       /\ \E a \in BoxInputs : AddObjectBox(a[1], a[2])
    \/ /\ pc = "idle" /\ Len(m_datas) < MaxObjs
       /\ \E a \in PolygonInputs : AddObjectPolygon(a[1], a[2])
    \/ /\ pc = "idle" /\ Len(m_datas) < MaxObjs
       /\ \E a \in PwhInputs : AddObjectPwh(a[1], a[2])
    \/ /\ pc = "idle"
       /\ \E cnt \in SplitChoices(Len(m_datas),
                                  m_mergeSettings.mergeThreashold) :
              MergeBegin(cnt)
    \/ MergeRegionStep
    \/ MergeEnd
    \/ Clear

Spec == Init /\ [][Next]_vars

\* the facade driven through PolygonMergeRunner::Run
NextRun ==
    \/ \E s \in RunSettingsChoices : SetMergeSettings(s)
    \/ /\ pc = "idle" /\ Len(m_datas) < MaxRunObjs
       /\ \E a \in RunInputs : AddObjectBox(a[1], a[2])
    \/ /\ pc = "idle"
       /\ \E k \in 0..MaxThreads :
              \E cnt \in SplitChoices(Len(m_datas),
                                      m_mergeSettings.mergeThreashold) :
                  RunBegin(k, cnt)
    \/ \E n \in Nodes : TaskStart(n)
    \/ \E n \in Nodes : TaskEnterMerge(n)
    \/ \E n \in Nodes : TaskFinish(n)
    \/ RunEnd
    \/ Clear

SpecRun == Init /\ [][NextRun]_vars

\* the runner with an executor that does not idle: a task that a worker can
\* start is started
SpecRunFair ==
    /\ Init /\ [][NextRun]_vars
    /\ WF_vars(\E n \in Nodes : TaskStart(n))

\* the facade and the runner in any order: AddObject before and after a
\* merge, Merge and Run again and again, Clear at any point between calls.
\* AddObject is taken while fewer than MaxHeap records are allocated.
NextAll ==
    \/ \E s \in RunSettingsChoices : SetMergeSettings(s)
    \/ /\ Len(heap) < MaxHeap
       /\ \E a \in BoxInputs : AddObjectBox(a[1], a[2])
    \/ \E cnt \in SplitChoices(Len(m_datas), m_mergeSettings.mergeThreashold) :
           MergeBegin(cnt)
    \/ MergeRegionStep
    \/ MergeEnd
    \/ \E k \in 0..MaxThreads :
           \E cnt \in SplitChoices(Len(m_datas),
                                   m_mergeSettings.mergeThreashold) :
               RunBegin(k, cnt)
    \/ \E n \in Nodes : TaskStart(n)
    \/ \E n \in Nodes : TaskEnterMerge(n)
    \/ \E n \in Nodes : TaskFinish(n)
    \/ RunEnd
    \/ Clear

SpecAll == Init /\ [][NextAll]_vars

\* ------------------------------------------------------- a tree of two levels
\* RectTree::Build(m_datas, threshold) that splits child 1 again: record i of
\* the list goes to node at[i]. A list longer than the threshold is split, no
\* node keeps more than threshold records, and a node exists when its
\* subtree holds records.
Grands == (NumKids + 1)..(NumKids + NumGrand)

DeepChoices(len, threshold) ==
    {at \in [1..len -> Nodes] :
        /\ len > threshold
        /\ \E i \in 1..len : at[i] \in Grands
        /\ \A n \in Nodes :
               Cardinality({i \in 1..len : at[i] = n}) <= threshold}

RECURSIVE DeepPick(_, _, _, _)
DeepPick(datas, at, n, i) ==
    IF i > Len(datas) THEN <<>>
    ELSE (IF at[i] = n THEN <<datas[i]>> ELSE <<>>)
             \o DeepPick(datas, at, n, i + 1)

DeepObjs(datas, at) == [n \in Nodes |-> DeepPick(datas, at, n, 1)]

RECURSIVE DeepUsed(_, _, _)
DeepUsed(used, lo, hi) ==
    IF lo > hi THEN <<>>
    ELSE (IF lo \in used THEN <<lo>> ELSE <<>>) \o DeepUsed(used, lo + 1, hi)

DeepKids(at) ==
    [n \in Nodes |->
        IF n = Root
        THEN DeepUsed({at[i] : i \in DOMAIN at}
                          \cup (IF \E i \in DOMAIN at : at[i] \in Grands
                                THEN {1} ELSE {}),
                      1, NumKids)
        ELSE IF n = 1
        THEN DeepUsed({at[i] : i \in DOMAIN at}, NumKids + 1,
                      NumKids + NumGrand)
        ELSE <<>>]

DeepBoxes(datas, at, bbox) ==
    [n \in Nodes |->
        IF n = Root THEN bbox
        ELSE IF GetAllObjects(DeepObjs(datas, at), DeepKids(at), n) = <<>>
        THEN <<>>
        ELSE Extent(UNION {heap[i].solid \cup UNION heap[i].holes :
                 i \in Range(GetAllObjects(DeepObjs(datas, at),
                                           DeepKids(at), n))})]

\* BuildTaskTree when the build splits twice
BuildTaskTreeDeep(at) ==
    /\ objs' = DeepObjs(m_datas, at)
    /\ kids' = DeepKids(at)
    /\ nbox' = DeepBoxes(m_datas, at, m_bbox)
    /\ m_datas' = <<>>

\* Merge() up to the end of PreProcess, over a tree of two levels
MergeBeginDeep(at) ==
    /\ pc = "idle"
    /\ BuildTaskTreeDeep(at)
    /\ inputs' = [i \in 1..Len(m_datas) |-> heap[m_datas[i]]]
    /\ split' = [c \in 1..NumKids |->
                    Len(GetAllObjects(DeepObjs(m_datas, at), DeepKids(at), c))]
    /\ todo' = PostOrder(DeepKids(at), Root)
    /\ pc' = "region"
    /\ UNCHANGED << m_mergeSettings, m_bbox, m_propertyMap, m_propDiffAreas,
                    heap, freed, task, precede, m_threads, graph, components >>

\* the facade driven through Merge() over trees of two levels
NextTree ==
    \/ \E s \in RunSettingsChoices : SetMergeSettings(s)
    \/ /\ pc = "idle" /\ Len(heap) < MaxHeap
       /\ \E a \in BoxInputs : AddObjectBox(a[1], a[2])
    \/ \E at \in DeepChoices(Len(m_datas), m_mergeSettings.mergeThreashold) :
           MergeBeginDeep(at)
    \/ MergeRegionStep
    \/ MergeEnd
    \/ Clear

SpecTree == Init /\ [][NextTree]_vars

\* ------------------------------------------------ records as point sequences
\* The same merger with every ring kept as the sequence of its points
\* <<x, y>>, which is what orientation, point counts and the hole
\* reconstructor work on. A box is <<xmin, ymin, xmax, ymax>>, <<>> when
\* invalid.

\* twice the signed area of a ring (shoelace sum), positive when the ring
\* runs counter-clockwise
RECURSIVE Shoelace(_, _)
Shoelace(ring, i) ==
    IF i > Len(ring) THEN 0
    ELSE ring[i][1] * ring[(i % Len(ring)) + 1][2]
         - ring[(i % Len(ring)) + 1][1] * ring[i][2]
         + Shoelace(ring, i + 1)

SignedArea2(ring) == Shoelace(ring, 1)

\* Polygon2D::isCCW
isCCW(ring) == SignedArea2(ring) > 0

\* Polygon2D::Reverse
Reverse(ring) == [i \in 1..Len(ring) |-> ring[Len(ring) + 1 - i]]

\* PolygonWithProp::Normalize
Normalize(pd) ==
    [pd EXCEPT !.solid = IF ~isCCW(@) THEN Reverse(@) ELSE @,
               !.holes = [i \in 1..Len(@) |->
                             IF isCCW(@[i]) THEN Reverse(@[i]) ELSE @[i]]]

\* geometry::Extent of a point sequence
ExtentPts(ring) ==
    IF ring = <<>> THEN <<>>
    ELSE << SetMin({ring[i][1] : i \in 1..Len(ring)}),
            SetMin({ring[i][2] : i \in 1..Len(ring)}),
            SetMax({ring[i][1] : i \in 1..Len(ring)}),
            SetMax({ring[i][2] : i \in 1..Len(ring)}) >>

RECURSIVE BoxUnionAll(_, _)
BoxUnionAll(box, rings) ==
    IF rings = <<>> THEN box
    ELSE BoxUnionAll(BoxUnion(box, ExtentPts(Head(rings))), Tail(rings))

\* PolygonWithProp::BBox on point sequences
BBoxPts(pd) == BoxUnionAll(ExtentPts(pd.solid), pd.holes)

\* toPolygon(box): the four corners, counter-clockwise from the lower left
toPolygon(box) ==
    << <<box[1], box[2]>>, <<box[3], box[2]>>,
       <<box[3], box[4]>>, <<box[1], box[4]>> >>

\* makePolygonData, lines 520-525 and 527: the circular list over the indices
\* 0..size-1 and the empty point-index map. cands keeps the indices of every
\* ring the loop pinches off, kept as a hole or not.
NodeListInit(size) ==
    [prev  |-> [i \in 0..(size - 1) |-> (i + size - 1) % size],
     next  |-> [i \in 0..(size - 1) |-> (i + 1) % size],
     ptMap |-> <<>>,
     holes |-> <<>>,
     cands |-> <<>>]

\* the loops of lines 538-541 and 564-567: the indices visited from index
\* until the node whose next is start, that node left out. fuel bounds the
\* walk by the number of nodes.
RECURSIVE WalkIdx(_, _, _, _)
WalkIdx(next, start, index, fuel) ==
    IF fuel = 0 \/ next[index] = start THEN <<>>
    ELSE <<index>> \o WalkIdx(next, start, next[index], fuel - 1)

\* the node such a walk stops at
RECURSIVE WalkLast(_, _, _, _)
WalkLast(next, start, index, fuel) ==
    IF fuel = 0 \/ next[index] = start THEN index
    ELSE WalkLast(next, start, next[index], fuel - 1)

PointsAt(in, idx) == [k \in 1..Len(idx) |-> in[idx[k] + 1]]

\* the test of the ring with 0 in the place of 1
HoleAcceptedPositive(polygon) ==
    /\ polygon # <<>>
    /\ ExtentPts(polygon)[3] - ExtentPts(polygon)[1] > 0
    /\ ExtentPts(polygon)[4] - ExtentPts(polygon)[2] > 0

\* lines 542-546 for integral coordinates: the ring is kept as a hole when
\* its box is longer and wider than 1
HoleAccepted(polygon) ==
    /\ polygon # <<>>
    /\ ExtentPts(polygon)[3] - ExtentPts(polygon)[1] > 1
    /\ ExtentPts(polygon)[4] - ExtentPts(polygon)[2] > 1

\* lines 542-556: the ring with the indices idx is kept as a hole or not, and
\* the main ring is stitched together again around curr
Restitch(st, in, curr, first, next, idx) ==
    [prev  |-> [st.prev EXCEPT ![curr] = st.prev[first]],
     next  |-> [[[st.next EXCEPT ![curr] = first]
                     EXCEPT ![st.prev[first]] = curr]
                     EXCEPT ![curr] = next],
     ptMap |-> st.ptMap,
     holes |-> IF HoleAccepted(PointsAt(in, idx))
               THEN Append(st.holes, PointsAt(in, idx))
               ELSE st.holes,
     cands |-> Append(st.cands, idx)]

\* lines 529-558, one turn of the loop at index i. ptMap.Insert is
\* unordered_map::insert: a point that is in the map keeps its first index.
PinchAt(st, in, i) ==
    IF in[i + 1] \in DOMAIN st.ptMap
    THEN Restitch(st, in, i, st.ptMap[in[i + 1]], st.next[i],
                  WalkIdx([st.next EXCEPT ![i] = st.ptMap[in[i + 1]]],
                          st.ptMap[in[i + 1]], st.ptMap[in[i + 1]], Len(in)))
    ELSE [st EXCEPT !.ptMap = (in[i + 1] :> i) @@ @]

RECURSIVE PinchLoop(_, _, _)
PinchLoop(st, in, i) ==
    IF i >= Len(in) THEN st ELSE PinchLoop(PinchAt(st, in, i), in, i + 1)

\* lines 561-569: the solid is what is left of the list, from the last index
SolidIdx(st, size) ==
    WalkIdx(st.next, size - 1, size - 1, size)
    \o <<WalkLast(st.next, size - 1, size - 1, size)>>

SolidOf(st, in) == PointsAt(in, SolidIdx(st, Len(in)))

\* line 518: a closing point equal to the first one is dropped
DropClosing(in) ==
    IF in[1] = in[Len(in)] THEN SubSeq(in, 1, Len(in) - 1) ELSE in

\* the list, the map and the rings at the end of the loop over the points
Pinched(in) ==
    PinchLoop(NodeListInit(Len(DropClosing(in))), DropClosing(in), 0)

MakeFrom(st, in, prop) ==
    [property |-> prop, solid |-> SolidOf(st, in), holes |-> st.holes]

\* makePolygonData on a closed polyline of points
makePolygonDataPts(in, prop) == MakeFrom(Pinched(in), DropClosing(in), prop)

\* AddPolygonData without the call of Normalize
AddPolygonDataRaw(pd) ==
    /\ pc \in {"idle", "done"}
    /\ heap' = Append(heap, pd)
    /\ m_datas' = Append(m_datas, Len(heap) + 1)
    /\ m_bbox' = BoxUnion(m_bbox, BBoxPts(pd))
    /\ UNCHANGED << m_mergeSettings, m_propertyMap, m_propDiffAreas, freed,
                    objs, kids, nbox, pc, todo, task, precede, m_threads,
                    inputs, split, graph, components >>

\* AddPolygonData: Normalize, m_bbox |= BBox, push_back
AddPolygonDataPts(pd) ==
    /\ pc \in {"idle", "done"}
    /\ heap' = Append(heap, Normalize(pd))
    /\ m_datas' = Append(m_datas, Len(heap) + 1)
    /\ m_bbox' = BoxUnion(m_bbox, BBoxPts(Normalize(pd)))
    /\ UNCHANGED << m_mergeSettings, m_propertyMap, m_propDiffAreas, freed,
                    objs, kids, nbox, pc, todo, task, precede, m_threads,
                    inputs, split, graph, components >>

AddObjectBoxPts(property, box) ==
    AddPolygonDataPts([property |-> property, solid |-> toPolygon(box),
                       holes |-> <<>>])

AddObjectPolygonPts(property, polygon) ==
    AddPolygonDataPts([property |-> property, solid |-> polygon,
                       holes |-> <<>>])

AddObjectPwhPts(property, pwh) ==
    AddPolygonDataPts([property |-> property, solid |-> pwh.outline,
                       holes |-> pwh.holes])

\* ------------------------------------------------------- the polygon simplifier
\* squared distance of two points
DistanceSq(a, b) ==
    (a[1] - b[1]) * (a[1] - b[1]) + (a[2] - b[2]) * (a[2] - b[2])

\* the squared distance of p from the segment a-b, times the squared length
\* of the segment (times 1 when a = b)
FarFrom(p, a, b) ==
    IF a = b THEN DistanceSq(p, a)
    ELSE IF (p[1] - a[1]) * (b[1] - a[1]) + (p[2] - a[2]) * (b[2] - a[2]) <= 0
    THEN DistanceSq(p, a) * DistanceSq(a, b)
    ELSE IF (p[1] - a[1]) * (b[1] - a[1]) + (p[2] - a[2]) * (b[2] - a[2])
                >= DistanceSq(a, b)
    THEN DistanceSq(p, b) * DistanceSq(a, b)
    ELSE ((p[1] - a[1]) * (b[2] - a[2]) - (p[2] - a[2]) * (b[1] - a[1]))
         * ((p[1] - a[1]) * (b[2] - a[2]) - (p[2] - a[2]) * (b[1] - a[1]))

\* the squared tolerance on the same scale
FarLimit(a, b, dist) ==
    IF a = b THEN dist * dist ELSE dist * dist * DistanceSq(a, b)

\* the first of the inner points of pts that are farthest from the segment
\* between the end points
Farthest(pts) ==
    SetMin({k \in 2..(Len(pts) - 1) :
               \A j \in 2..(Len(pts) - 1) :
                   FarFrom(pts[j], pts[1], pts[Len(pts)])
                       <= FarFrom(pts[k], pts[1], pts[Len(pts)])})

\* Douglas-Peucker on a polyline: the end points stay, and the farthest inner
\* point stays, with what each side of it keeps, when it is farther than dist
RECURSIVE simplify(_, _)
simplify(pts, dist) ==
    IF Len(pts) <= 2 THEN pts
    ELSE IF FarFrom(pts[Farthest(pts)], pts[1], pts[Len(pts)])
                > FarLimit(pts[1], pts[Len(pts)], dist)
    THEN simplify(SubSeq(pts, 1, Farthest(pts)), dist)
         \o Tail(simplify(SubSeq(pts, Farthest(pts), Len(pts)), dist))
    ELSE <<pts[1], pts[Len(pts)]>>

\* lines 616-620: while(size != in.Size()) { in = out; simplify(in, out);
\* size = out.Size(); }, inSize being in.Size(). turns counts the turns left
\* before the walk through the loop is given up.
RECURSIVE CleanLoop(_, _, _, _)
CleanLoop(out, inSize, dist, turns) ==
    IF Len(out) = inSize THEN [out |-> out, stopped |-> TRUE]
    ELSE IF turns = 0 THEN [out |-> out, stopped |-> FALSE]
    ELSE CleanLoop(simplify(out, dist), Len(out), dist, turns - 1)

\* line 621: the last point goes when it is farther than dist from the first
DropBack(out, dist) ==
    IF DistanceSq(out[1], out[Len(out)]) > dist * dist
    THEN SubSeq(out, 1, Len(out) - 1) ELSE out

Cleaned(polygon, dist) ==
    DropBack(CleanLoop(polygon, 0, dist, Len(polygon) + 1).out, dist)

\* CleanPolygon without the test of the size of the result
CleanPolygonAnySize(polygon, dist) == Cleaned(polygon, dist)

\* CleanPolygon(Polygon2D &, dist)
CleanPolygon(polygon, dist) ==
    IF Len(Cleaned(polygon, dist)) >= 3 THEN Cleaned(polygon, dist)
    ELSE polygon

\* CleanPolygon(PolygonData *, dist): the solid and every hole
CleanPolygonData(pd, dist) ==
    [pd EXCEPT !.solid = CleanPolygon(@, dist),
               !.holes = [i \in 1..Len(@) |-> CleanPolygon(@[i], dist)]]

\* PolygonMergeUtils::CleanPolygons on the polygons GetAllPolygons returns
CleanPolygons(dist) ==
    /\ pc \in {"idle", "done"}
    /\ heap' = [i \in 1..Len(heap) |->
                   IF i \in Range(GetAllPolygons(Machine, m_datas))
                   THEN CleanPolygonData(heap[i], dist) ELSE heap[i]]
    /\ UNCHANGED << m_mergeSettings, m_bbox, m_datas, m_propertyMap,
                    m_propDiffAreas, freed, objs, kids, nbox, pc, todo, task,
                    precede, m_threads, inputs, split, graph, components >>

\* the tolerances CleanPolygons is called with
DistChoices == 1..MaxDist

\* PreProcess (lines 326-328): CleanPolygons runs when the flag is set and the
\* tolerance positive
CleansBefore(set) == set.cleanPolyonPoints /\ isPositive(set.cleanPointDist)

\* PostProcess (line 379): CleanPolygons runs when the tolerance converts to
\* true, that is, is not zero, and is positive
CleansAfter(set) == set.cleanPointDist # 0 /\ isPositive(set.cleanPointDist)

\* PolygonMerger::CleanPolygons when ran is true: CleanPolygon on the records
\* ids of the heap h, with the tolerance of the settings
CleanedHeap(h, ids, set, ran) ==
    IF ran THEN [i \in 1..Len(h) |->
                    IF i \in ids THEN CleanPolygonData(h[i], set.cleanPointDist)
                    ELSE h[i]]
    ELSE h

\* Merge() of two or more pending records that stay in one bucket at the
\* root: PreProcess cleans them when its test says so, MergePolygons deletes
\* them, every closed polyline outs[i] the boolean primitive returns for the
\* property prop goes through makePolygonData, and PostProcess cleans the
\* results when its test says so. Which polylines the primitive returns, and
\* which way round they run, is not fixed here.
MergePts(outs, prop) ==
    /\ pc = "idle" /\ Len(m_datas) >= 2
    /\ \E i \in 1..Len(m_datas) : heap[m_datas[i]].property = prop
    /\ heap' = CleanedHeap(
                   CleanedHeap(heap, Range(GetAllPolygons(Machine, m_datas)),
                               m_mergeSettings, CleansBefore(m_mergeSettings))
                       \o [i \in 1..Len(outs) |->
                              makePolygonDataPts(outs[i], prop)],
                   (Len(heap) + 1)..(Len(heap) + Len(outs)),
                   m_mergeSettings, CleansAfter(m_mergeSettings))
    /\ freed' = freed \cup Range(m_datas)
    /\ objs' = [NoTree EXCEPT ![Root] = [i \in 1..Len(outs) |-> Len(heap) + i]]
    /\ kids' = NoTree
    /\ nbox' = [NoTree EXCEPT ![Root] = m_bbox]
    /\ inputs' = [i \in 1..Len(m_datas) |-> heap[m_datas[i]]]
    /\ split' = [i \in 1..NumKids |-> 0]
    /\ m_datas' = <<>>
    /\ pc' = "done"
    /\ UNCHANGED << m_mergeSettings, m_bbox, m_propertyMap, m_propDiffAreas,
                    todo, task, precede, m_threads, graph, components >>

\* the settings SetMergeSettings is called with for the point cleanup
CleanSettingsChoices ==
    { [DefaultSettings EXCEPT !.cleanPolyonPoints = flag,
                              !.cleanPointDist = dist] :
        flag \in BOOLEAN, dist \in 0..MaxDist }


\* rings used as inputs: a square either way round, two points, three points
\* on a line, a square with a point more on its lower side
SquareCCW == << <<0, 0>>, <<4, 0>>, <<4, 4>>, <<0, 4>> >>

SquareCW == Reverse(SquareCCW)

TwoPoints == << <<0, 0>>, <<4, 4>> >>

Collinear == << <<0, 0>>, <<2, 2>>, <<4, 4>> >>

Stepped == << <<0, 0>>, <<2, 0>>, <<4, 0>>, <<4, 4>>, <<0, 4>> >>

InnerCCW == << <<1, 1>>, <<3, 1>>, <<3, 3>>, <<1, 3>> >>

BoxInputsPts == { <<1, <<0, 0, 4, 4>> >>, <<2, <<2, 2, 6, 6>> >> }

PolygonInputsPts ==
    { <<1, SquareCCW>>, <<1, SquareCW>>, <<2, TwoPoints>>, <<2, Collinear>>,
      <<1, Stepped>> }

PwhInputsPts ==
    { <<1, [outline |-> SquareCW, holes |-> <<InnerCCW>>]>>,
      <<1, [outline |-> SquareCCW, holes |-> <<Reverse(InnerCCW)>>]>> }

\* closed polylines the primitive hands to makePolygonData: a square; a
\* square with a square hole, the hole reached through a slit from the upper
\* side; a square with a spike of no width; each of these either way round
Closed(ring) == Append(ring, ring[1])

KeyHoled ==
    << <<0, 0>>, <<6, 0>>, <<6, 6>>, <<2, 6>>, <<2, 4>>, <<4, 4>>, <<4, 2>>,
       <<2, 2>>, <<2, 4>>, <<2, 6>>, <<0, 6>> >>

Spiked ==
    << <<0, 0>>, <<6, 0>>, <<6, 6>>, <<3, 6>>, <<3, 3>>, <<3, 6>>, <<0, 6>> >>

\* a square with two triangular holes that meet its upper side in one point
TwoHoled ==
    << <<0, 0>>, <<8, 0>>, <<8, 8>>, <<4, 8>>, <<5, 5>>, <<7, 5>>, <<4, 8>>,
       <<1, 5>>, <<3, 5>>, <<4, 8>>, <<0, 8>> >>

\* a square with a hole one unit wide, reached through a slit
Slotted ==
    << <<0, 0>>, <<6, 0>>, <<6, 6>>, <<2, 6>>, <<2, 5>>, <<3, 5>>, <<3, 2>>,
       <<2, 2>>, <<2, 5>>, <<2, 6>>, <<0, 6>> >>

\* a square with one corner given twice
Doubled == << <<0, 0>>, <<4, 0>>, <<4, 0>>, <<4, 4>>, <<0, 4>> >>

PolylineChoices ==
    { Closed(SquareCCW), Closed(SquareCW), Closed(KeyHoled),
      Closed(Reverse(KeyHoled)), Closed(Spiked), Closed(Reverse(Spiked)),
      Closed(TwoHoled), Closed(Slotted), Closed(Doubled) }

\* AddObject, Merge and Clear on records kept as point sequences
NextPts ==
    \/ /\ Cardinality(Live(Machine)) < MaxPtsObjs
       /\ \E a \in BoxInputsPts : AddObjectBoxPts(a[1], a[2])
    \/ /\ Cardinality(Live(Machine)) < MaxPtsObjs
       /\ \E a \in PolygonInputsPts : AddObjectPolygonPts(a[1], a[2])
    \/ /\ Cardinality(Live(Machine)) < MaxPtsObjs
       /\ \E a \in PwhInputsPts : AddObjectPwhPts(a[1], a[2])
    \/ \E o \in PolylineChoices : \E prop \in Props : MergePts(<<o>>, prop)
    \/ \E dist \in DistChoices : CleanPolygons(dist)
    \/ Clear

SpecPts == Init /\ [][NextPts]_vars

\* the same facade with the point cleanup set by SetMergeSettings
NextClean ==
    \/ \E s \in CleanSettingsChoices : SetMergeSettings(s)
    \/ /\ Cardinality(Live(Machine)) < MaxPtsObjs
       /\ \E a \in BoxInputsPts : AddObjectBoxPts(a[1], a[2])
    \/ /\ Cardinality(Live(Machine)) < MaxPtsObjs
       /\ \E a \in PolygonInputsPts : AddObjectPolygonPts(a[1], a[2])
    \/ /\ Cardinality(Live(Machine)) < MaxPtsObjs
       /\ \E a \in PwhInputsPts : AddObjectPwhPts(a[1], a[2])
    \/ \E o \in PolylineChoices : \E prop \in Props : MergePts(<<o>>, prop)
    \/ Clear

SpecClean == Init /\ [][NextClean]_vars

\* ------------------------------------------------------------ the index graph
\* topology::AddEdge(i, j, g): boost::add_edge on a graph with a vector of
\* vertices, which grows to hold i and j
AddEdge(i, j) ==
    /\ graph' = [n     |-> SetMax({graph.n, i + 1, j + 1}),
                 edges |-> graph.edges \cup {{i, j}}]
    /\ UNCHANGED << m_mergeSettings, m_bbox, m_datas, m_propertyMap,
                    m_propDiffAreas, heap, freed, objs, kids, nbox, pc, todo,
                    task, precede, m_threads, inputs, split, components >>

\* the edges of the graph as pairs, either way round
EdgePairs(gr) ==
    {<<i, j>> \in (0..(gr.n - 1)) \X (0..(gr.n - 1)) : {i, j} \in gr.edges}

\* topology::ConnectedComponents(g, cc)
ConnectedComponentsCall ==
    /\ components' = ConnectedComponents(0..(graph.n - 1), EdgePairs(graph))
    /\ UNCHANGED << m_mergeSettings, m_bbox, m_datas, m_propertyMap,
                    m_propDiffAreas, heap, freed, objs, kids, nbox, pc, todo,
                    task, precede, m_threads, inputs, split, graph >>

\* a graph is built edge by edge and its components are asked for
NextGraph ==
    \/ \E i, j \in 0..(MaxVerts - 1) : AddEdge(i, j)
    \/ ConnectedComponentsCall

SpecGraph == Init /\ [][NextGraph]_vars

\* -------------------------------------------------------------- the results
\* GetAllPolygons() of the facade: the ids and the records they name
Outputs == GetAllPolygons(Machine, m_datas)

OutputPolygons == [i \in 1..Len(Outputs) |-> heap[Outputs[i]]]

\* Merge() as one step: MergeRegion(&m_mergeTaskTree), then PostProcess()
Merge(m, boxes, set) ==
    PostProcess(MergeRegion(m, boxes, set, Root), <<>>, set)

\* the merger right after PreProcess built the tree over the recorded inputs
AfterPreProcess ==
    [heap |-> inputs, freed |-> {}, pmap |-> EmptyMap, diffs |-> <<>>,
     objs |-> TreeObjs([i \in 1..Len(inputs) |-> i], split),
     kids |-> TreeKids(split), calls |-> 0, deletes |-> 0]

\* what the single-threaded Merge() returns for the recorded inputs
MergeOutputs ==
    [i \in 1..Len(GetAllPolygons(Merge(AfterPreProcess, nbox, m_mergeSettings),
                                 <<>>)) |->
        Merge(AfterPreProcess, nbox, m_mergeSettings).heap[
            GetAllPolygons(Merge(AfterPreProcess, nbox, m_mergeSettings),
                           <<>>)[i]]]

\* --------------------------------------------------------- claim vocabulary
BagOfSeq(s) == [x \in Range(s) |-> Cardinality({i \in 1..Len(s) : s[i] = x})]

SumCoveredArea(s) == SeqSum([i \in 1..Len(s) |-> CoveredArea(s[i])])

\* the cells some input covers
InputCover == UNION {Covered(inputs[i]) : i \in 1..Len(inputs)}

NoFilters ==
    /\ ~m_mergeSettings.ignoreTinySolid
    /\ ~m_mergeSettings.ignoreTinyHoles

\* two recorded inputs with different properties that overlap
TwoOverlappingInputs ==
    /\ Len(inputs) = 2
    /\ inputs[1].property # inputs[2].property
    /\ Covered(inputs[1]) \cap Covered(inputs[2]) # {}

\* of two recorded inputs, the one with the smaller (iteration-first) property
\* and the other one
FirstInput ==
    IF inputs[1].property < inputs[2].property THEN inputs[1] ELSE inputs[2]

SecondInput ==
    IF inputs[1].property < inputs[2].property THEN inputs[2] ELSE inputs[1]

\* the cells the outputs tagged p cover
OutputCover(p) ==
    UNION {Covered(OutputPolygons[i]) :
              i \in {j \in 1..Len(Outputs) : OutputPolygons[j].property = p}}

Connected(R) == R # {} /\ Len(ComponentSeq(R)) = 1

\* ---------------------------------------------------------------- the claims
\* C1: after Merge() no two distinct output polygons with the same property
\* overlap or touch, and inputs of one property whose union is connected come
\* out as exactly one polygon, for every input set and tree partition.
C1_SamePropertyMerged ==
    pc = "done" =>
        /\ \A i, j \in 1..Len(Outputs) :
              (i # j /\ OutputPolygons[i].property = OutputPolygons[j].property)
                  => ~Touch(Covered(OutputPolygons[i]),
                            Covered(OutputPolygons[j]))
        /\ (/\ NoFilters
            /\ inputs # <<>>
            /\ \A i \in 1..Len(inputs) : inputs[i].property = inputs[1].property
            /\ Connected(InputCover))
               => Len(Outputs) = 1

\* C2: with checkPropertyDiff = false, two overlapping inputs with properties
\* p and q (p first in iteration order) give exactly one output polygon, which
\* covers the union of the two and is tagged p, and the map then holds q -> p.
C2_CollapseToOne ==
    (/\ pc = "done"
     /\ ~m_mergeSettings.checkPropertyDiff
     /\ NoFilters
     /\ TwoOverlappingInputs)
        => /\ Len(Outputs) = 1
           /\ Covered(OutputPolygons[1]) = InputCover
           /\ OutputPolygons[1].property = FirstInput.property
           /\ m_propertyMap[SecondInput.property] = FirstInput.property

\* C3: with checkPropertyDiff = true, two overlapping inputs with properties
\* p # q give exactly the two non-overlapping parts, each under its own
\* property (one polygon per part when both parts are connected), no polygon
\* on the overlap, and exactly one conflict record, whose property set is
\* {p, q}.
C3_ConflictReported ==
    (/\ pc = "done"
     /\ m_mergeSettings.checkPropertyDiff
     /\ NoFilters
     /\ TwoOverlappingInputs)
        => /\ OutputCover(FirstInput.property)
                = Covered(FirstInput) \ Covered(SecondInput)
           /\ OutputCover(SecondInput.property)
                = Covered(SecondInput) \ Covered(FirstInput)
           /\ \A i \in 1..Len(Outputs) :
                  /\ OutputPolygons[i].property
                        \in {FirstInput.property, SecondInput.property}
                  /\ Covered(OutputPolygons[i])
                        \cap (Covered(FirstInput) \cap Covered(SecondInput)) = {}
           /\ (/\ Connected(Covered(FirstInput) \ Covered(SecondInput))
               /\ Connected(Covered(SecondInput) \ Covered(FirstInput)))
                  => Len(Outputs) = 2
           /\ Len(m_propDiffAreas) = 1
           /\ m_propDiffAreas[1].props
                = {FirstInput.property, SecondInput.property}

C3_Witness ==
    /\ pc = "done"
    /\ m_mergeSettings.checkPropertyDiff
    /\ NoFilters
    /\ TwoOverlappingInputs
    /\ Len(Outputs) = 2
    /\ Len(m_propDiffAreas) = 1

\* C4: for every input set and thread count k >= 1, the multiset of polygons
\* (geometry and property) Run produces equals the multiset the sequential
\* Merge() produces on the same input and settings, under every interleaving.
C4_RunEqualsMerge ==
    pc = "done" => BagOfSeq(OutputPolygons) = BagOfSeq(MergeOutputs)

\* C5: for every parent/child pair of the task tree, the child's task has
\* completed before the parent's task starts.
C5_ChildBeforeParent ==
    pc = "tasks" =>
        \A p \in Nodes : \A i \in 1..Len(TreeKids(split)[p]) :
            task[p] \in {"run", "map", "done"}
                => task[TreeKids(split)[p][i]] = "done"

C5_Witness ==
    /\ pc = "tasks"
    /\ Len(TreeKids(split)[Root]) = NumKids
    /\ task[Root] = "run"
    /\ \A i \in 1..NumKids : task[TreeKids(split)[Root][i]] = "done"

\* C6: no two concurrently running tasks are ever at the same time inside a
\* MergePolygons access to the shared property map or conflict list.
C6_MapAccessExclusive ==
    Cardinality({n \in Nodes : task[n] = "map"}) <= 1

NoCavityEnclosed ==
    \A i \in 1..Len(Outputs) :
        /\ OutputPolygons[i].holes = {}
        /\ OutputPolygons[i].solid \subseteq InputCover

C10_CoveredByInputOneLevel ==
    (pc = "done" /\ ~m_mergeSettings.ignoreTinyHoles) =>
        \A i \in 1..Len(Outputs) : \A c \in Covered(OutputPolygons[i]) :
            \E k \in 1..Len(inputs) :
                /\ c \in Covered(inputs[k])
                /\ \/ inputs[k].property = OutputPolygons[i].property
                   \/ m_propertyMap[inputs[k].property]
                        = OutputPolygons[i].property

\* C11: a conflict record is appended only by a step taken while
\* checkPropertyDiff is true, and while checkPropertyDiff has been false since
\* the merger was last empty the conflict list is empty, whatever AddObject,
\* Merge and Run calls were made.
C11_ConflictOnlyWhenChecked ==
    [][/\ Len(m_propDiffAreas') > Len(m_propDiffAreas)
             => m_mergeSettings.checkPropertyDiff
       /\ ~m_mergeSettings'.checkPropertyDiff => m_propDiffAreas' = <<>>]_vars

C11_Witness ==
    /\ pc = "done"
    /\ ~m_mergeSettings.checkPropertyDiff
    /\ m_propertyMap # EmptyMap
    /\ m_propDiffAreas = <<>>

\* C13: Merge() and Run (with at least one worker) called on a merger that
\* holds no record terminate - while they run some step of theirs is always
\* possible - and leave the output, the conflict list and the property map
\* empty.
C13_EmptyInput ==
    heap = <<>> =>
        /\ pc = "region" => ENABLED (MergeRegionStep \/ MergeEnd)
        /\ (pc = "tasks" /\ m_threads > 0)
              => ENABLED ((\E n \in Nodes : TaskStart(n) \/ TaskFinish(n))
                          \/ RunEnd)
        /\ pc = "done" => /\ Outputs = <<>>
                          /\ m_propDiffAreas = <<>>
                          /\ m_propertyMap = EmptyMap

C13_Witness ==
    /\ heap = <<>>
    /\ pc = "done"
    /\ m_threads > 0
    /\ task[Root] = "done"

\* C14: Run with thread count 0 terminates as the sequential driver does:
\* once its task flow is scheduled, the task of the root is eventually
\* executed and PostProcess is reached.
C14_RunZeroTerminates ==
    (pc = "tasks" /\ m_threads = 0) ~> (task[Root] # "wait" \/ pc = "done")

\* the records the task tree holds, and the records the merger refers to
TreeRecords == Range(GetAllObjects(objs, kids, Root))

Owned == TreeRecords \cup Range(m_datas)

\* C15: between calls, GetAllPolygons returns exactly the records of the task
\* tree once Merge has run and exactly the pending input list if it has not,
\* and every record the merger holds is among those it returns.
C15_AllPolygonsReturned ==
    pc \in {"idle", "done"} =>
        /\ pc = "done" => Outputs = GetAllObjects(objs, kids, Root)
        /\ pc = "idle" => Outputs = m_datas
        /\ Owned \subseteq Range(Outputs)

\* C16: a Clear() releases every record the merger holds, in the tree or in
\* the pending input list: the records still allocated after it are records
\* the merger did not hold before it.
C16_ClearReleasesAll ==
    [][Clear => Len(heap') = Cardinality(Live(Machine) \ Owned)]_vars

\* the number of references the nodes of the task tree hold to record i
RefCount(i) ==
    Cardinality({nk \in Nodes \X (1..Len(heap)) :
                    nk[2] <= Len(objs[nk[1]]) /\ objs[nk[1]][nk[2]] = i})

\* C18: at every entry to and exit from MergeRegion(node), under Merge and
\* under Run, each live record is referenced by exactly one node of the tree.
C18_OneNodePerRecord ==
    pc \in {"region", "tasks"} =>
        \A i \in Live(Machine) : RefCount(i) = 1

\* C12: an AddObject call whose polygon has fewer than three points retains
\* nothing: every record of the pending input list has a solid of at least
\* three points.
C12_ShortPolygonNotRetained ==
    \A i \in Range(m_datas) : Len(heap[i].solid) >= 3

\* the box of the pending records
RECURSIVE BoxOfAll(_, _)
BoxOfAll(ids, h) ==
    IF ids = <<>> THEN <<>>
    ELSE BoxUnion(BBoxPts(h[Head(ids)]), BoxOfAll(Tail(ids), h))

\* a record as Normalize leaves it: the solid does not run clockwise and no
\* hole runs counter-clockwise
Normalized(pd) ==
    /\ SignedArea2(pd.solid) >= 0
    /\ \A k \in 1..Len(pd.holes) : SignedArea2(pd.holes[k]) <= 0

\* C17: an AddObject call leaves the task tree as it was and the pending
\* records normalized, and after AddObject calls alone since the last Clear
\* m_bbox is the union of the boxes of the records added.
C17_AddObjectPostcondition ==
    [][Len(m_datas') = Len(m_datas) + 1 =>
          /\ <<objs', kids', nbox'>> = <<objs, kids, nbox>>
          /\ \A i \in Range(m_datas') : Normalized(heap'[i])
          /\ m_bbox' = BoxUnion(m_bbox, BBoxPts(heap'[Len(heap')]))
          /\ pc' = "idle" => m_bbox' = BoxOfAll(m_datas', heap')]_vars

C17_Witness ==
    /\ pc = "idle"
    /\ Len(m_datas) = 2
    /\ m_bbox = <<0, 0, 6, 6>>
    /\ \E i \in Range(m_datas) : heap[i].holes # <<>>

\* C19: after a Merge every record of the output, assembled by
\* makePolygonData, has a counter-clockwise solid and clockwise holes.
C19_OutputOrientation ==
    pc = "done" =>
        \A i \in Range(objs[Root]) :
            /\ SignedArea2(heap[i].solid) > 0
            /\ \A k \in 1..Len(heap[i].holes) :
                   SignedArea2(heap[i].holes[k]) < 0

\* C20: Normalize applied to a record Normalize has produced returns the
\* same point sequences, also when the solid has zero signed area.
C20_NormalizeIdempotent ==
    \A i \in Range(m_datas) :
        Len(heap[i].solid) >= 3 => Normalize(heap[i]) = heap[i]

\* C21: in every reachable state the property map is idempotent on lookup:
\* resolving a resolved property gives the same property, so that no value
\* of the map is one of its keys.
C21_LookupIdempotent ==
    \A p \in Props :
        Resolve(m_propertyMap, Resolve(m_propertyMap, p))
            = Resolve(m_propertyMap, p)

\* a Merge() that made one MergePolygons call, at the root on all the inputs
\* and on an empty property map, with conflicts not recorded
OneCallCollapsing ==
    /\ pc = "done"
    /\ m_threads = 0
    /\ ~m_mergeSettings.checkPropertyDiff
    /\ Len(inputs) >= 2
    /\ \A i \in 1..Len(split) : split[i] = 0

\* C22: after MergePolygons has handled a result with property set S of more
\* than one property and conflicts are not recorded, every property of S but
\* the first one is mapped to the first one, and the polygons made for the
\* result carry the first one.
C22_ConflictRepointed ==
    OneCallCollapsing =>
        /\ \A S \in MergeResultKeys(Overlay(inputs)) :
               \A q \in S \ {SetMin(S)} : m_propertyMap[q] = SetMin(S)
        /\ \A k \in 1..Len(Outputs) :
               \A c \in Covered(OutputPolygons[k]) \cap InputCover :
                   OutputPolygons[k].property = SetMin(Overlay(inputs)[c])

\* C23: an entry of the property map, once made, is neither removed nor
\* changed by a later step of a merge, and a conflict record stays where it
\* is in the list; only Clear takes entries and records away.
C23_MapGrowsUntilClear ==
    [][\/ Clear
       \/ /\ \A p \in Props : m_propertyMap[p] # 0
                                 => m_propertyMap'[p] = m_propertyMap[p]
          /\ Len(m_propDiffAreas') >= Len(m_propDiffAreas)
          /\ SubSeq(m_propDiffAreas', 1, Len(m_propDiffAreas))
                 = m_propDiffAreas]_vars

C23_Witness ==
    /\ pc = "done"
    /\ m_propertyMap[3] = 2
    /\ m_propertyMap[2] = 1

\* the polylines makePolygonData has made a record of the output from
Reconstructed ==
    {o \in PolylineChoices :
        /\ pc = "done"
        /\ \E i \in Range(objs[Root]) :
               heap[i] = makePolygonDataPts(o, heap[i].property)}

\* the rings of makePolygonData(o) as lists of vertex indices: the outer
\* ring, then every ring pinched off
RingsOf(o) ==
    <<SolidIdx(Pinched(o), Len(DropClosing(o)))>> \o Pinched(o).cands

\* C24: makePolygonData puts every vertex index of its polyline (the closing
\* point dropped) into exactly one ring, the outer ring or one ring pinched off,
\* also when a point is visited three times.
C24_EachVertexInOneRing ==
    \A o \in Reconstructed :
        \A v \in 0..(Len(DropClosing(o)) - 1) :
            Cardinality({<<r, k>> \in (1..Len(RingsOf(o)))
                                      \X (1..Len(DropClosing(o))) :
                            /\ k <= Len(RingsOf(o)[r])
                            /\ RingsOf(o)[r][k] = v}) = 1

\* the box of ring r of makePolygonData(o) is more than 1 long and wide
LongAndWide(o, r) ==
    /\ SetMax({DropClosing(o)[i + 1][1] : i \in Range(RingsOf(o)[r])})
         - SetMin({DropClosing(o)[i + 1][1] : i \in Range(RingsOf(o)[r])}) > 1
    /\ SetMax({DropClosing(o)[i + 1][2] : i \in Range(RingsOf(o)[r])})
         - SetMin({DropClosing(o)[i + 1][2] : i \in Range(RingsOf(o)[r])}) > 1

RECURSIVE KeptRings(_, _)
KeptRings(o, r) ==
    IF r > Len(RingsOf(o)) THEN <<>>
    ELSE (IF LongAndWide(o, r)
          THEN <<PointsAt(DropClosing(o), RingsOf(o)[r])>> ELSE <<>>)
         \o KeptRings(o, r + 1)

\* C25: with integer coordinates the holes of the record makePolygonData
\* returns are the pinched-off rings whose box is more than 1 long and more
\* than 1 wide, in the order they were pinched off, and no vertex of a ring
\* that was not kept is on the outer ring.
C25_HoleKeptIffLongAndWide ==
    \A o \in Reconstructed :
        /\ makePolygonDataPts(o, 1).holes = KeptRings(o, 2)
        /\ \A r \in 2..Len(RingsOf(o)) :
               ~LongAndWide(o, r)
                   => Range(RingsOf(o)[r]) \cap Range(RingsOf(o)[1]) = {}

C25_Witness ==
    /\ Closed(Slotted) \in Reconstructed
    /\ \A i \in Range(objs[Root]) : heap[i].holes = <<>>

\* the nodes the task of node n touches: MergeRegion(n) works on n and,
\* through its recursion, GetAllObjects, Clear and Build, on every node below
Touched(n) == SubTree(kids, n)

\* C26: no two MergeRegion tasks that run at the same time touch the same
\* node of the task tree.
C26_RunningTasksDisjoint ==
    \A n \in Active : \A k \in Active \ {n} : Touched(n) \cap Touched(k) = {}

C26_Witness ==
    /\ Cardinality(Active) = 2
    /\ \A n \in Active : objs[n] # <<>>

\* C30: in a parallel Run the task of a node executes the region merge of
\* that node and of no other node: the node bodies its MergeRegion reaches are
\* the body of its own node alone.
C30_EachNodeMergedOnce ==
    [][\A n \in Nodes :
          (task[n] \in {"run", "map"} /\ task'[n] = "done")
              => PostOrder(kids, n) = <<n>>]_vars

\* a path of the graph gr from u to v
Path(gr, u, v) ==
    \E k \in 1..gr.n : \E q \in [1..k -> 0..(gr.n - 1)] :
        /\ q[1] = u /\ q[k] = v
        /\ \A i \in 1..(k - 1) : {q[i], q[i + 1]} \in gr.edges

\* the lists cs are the connected components of gr: every vertex is in one
\* list, at one place; two vertices share a list exactly when a path joins
\* them; the lists come in the order of their least vertex and are ascending
ComponentsOf(gr, cs) ==
    /\ \A v \in 0..(gr.n - 1) :
           Cardinality({<<r, k>> \in (1..Len(cs)) \X (1..gr.n) :
                           k <= Len(cs[r]) /\ cs[r][k] = v}) = 1
    /\ \A r \in 1..Len(cs) :
           /\ cs[r] # <<>>
           /\ Range(cs[r]) \subseteq 0..(gr.n - 1)
           /\ \A k \in 1..(Len(cs[r]) - 1) : cs[r][k] < cs[r][k + 1]
           /\ \A t \in (r + 1)..Len(cs) : cs[r][1] < cs[t][1]
    /\ \A u, v \in 0..(gr.n - 1) :
           Path(gr, u, v) <=> \E r \in 1..Len(cs) : {u, v} \subseteq Range(cs[r])

\* the groups GetOverlappedSubTaskNodes makes of the components cs when the
\* node at place v of vecNodes is v itself
GroupsOf(gr, cs) == KeepGroups(cs, [v \in 0..(gr.n - 1) |-> v], 1)

\* C28: ConnectedComponents writes the connected components of the graph,
\* every vertex once, in the order of their least vertex and each ascending,
\* and GetOverlappedSubTaskNodes keeps those of more than one member.
C28_ComponentsPartition ==
    [][components' # components =>
          /\ ComponentsOf(graph, components')
          /\ GroupsOf(graph, components')
                 = SelectSeq(components', LAMBDA c : Len(c) > 1)]_vars

C28_Witness ==
    /\ graph.edges = {{0, 2}, {1, 3}}
    /\ components = << <<0, 2>>, <<1, 3>> >>

\* the rings of the records CleanPolygons works on: <<record, 0>> for the
\* solid of a record and <<record, k>> for its hole k
CleanedRings ==
    {ik \in Range(GetAllPolygons(Machine, m_datas)) \X (0..Len(KeyHoled)) :
        ik[2] <= Len(heap[ik[1]].holes)}

RingOf(h, ik) == IF ik[2] = 0 THEN h[ik[1]].solid ELSE h[ik[1]].holes[ik[2]]

\* C29: CleanPolygon comes to an end for every polygon and every tolerance -
\* its loop is left after at most as many turns as the polygon has points,
\* and one more - it never gives the polygon more points, and it leaves the
\* polygon as it was when what it made of it has fewer than 3 points.
C29_CleanPolygonStops ==
    [][(\E dist \in DistChoices : CleanPolygons(dist)) =>
          \A ik \in CleanedRings :
              /\ \A dist \in DistChoices :
                     CleanLoop(RingOf(heap, ik), 0, dist,
                               Len(RingOf(heap, ik)) + 1).stopped
              /\ Len(RingOf(heap', ik)) <= Len(RingOf(heap, ik))
              /\ \/ Len(RingOf(heap', ik)) >= 3
                 \/ RingOf(heap', ik) = RingOf(heap, ik)]_vars

\* a record whose solid CleanPolygon has cut down next to one it has left
C29_Witness ==
    /\ pc = "idle"
    /\ \E i \in Range(m_datas) :
           heap[i].solid = << <<0, 0>>, <<4, 0>>, <<4, 4>> >>
    /\ \E i \in Range(m_datas) : Len(heap[i].solid) = 3 /\ SignedArea2(heap[i].solid) = 0

\* the records node n holds, as values
RecordsAt(h, o, n) == [i \in 1..Len(o[n]) |-> h[o[n][i]]]

\* the run that differs from the one under way in the polygons of the
\* siblings of node n alone: the siblings hold nothing and nothing has been
\* merged yet
SiblingsEmptied(n) ==
    [Machine EXCEPT !.pmap = EmptyMap, !.diffs = <<>>,
                    !.objs = [k \in Nodes |->
                                 IF k \in Range(kids[Root]) \ {n}
                                 THEN <<>> ELSE @[k]]]

RegionAlone(n) ==
    MergeRegion(SiblingsEmptied(n), nbox, m_mergeSettings, n)

\* C27: what MergeRegion makes of a child whose box meets the box of no
\* sibling is what it makes of that child when the siblings hold no polygon.
C27_SiblingIndependent ==
    [][\A n \in Range(kids[Root]) :
          (/\ task[n] \in {"run", "map"} /\ task'[n] = "done"
           /\ \A k \in Range(kids[Root]) \ {n} : ~BoxesMeet(nbox[n], nbox[k]))
              => RecordsAt(heap', objs', n)
                     = RecordsAt(RegionAlone(n).heap, RegionAlone(n).objs, n)]_vars

\* the records a machine state returns from GetAllPolygons, as values
PolygonsOf(m) ==
    [i \in 1..Len(GetAllPolygons(m, <<>>)) |-> m.heap[GetAllPolygons(m, <<>>)[i]]]

\* the merger once the Merge() whose PreProcess this step takes has returned
MergedAgain ==
    Merge([heap |-> heap', freed |-> freed', pmap |-> m_propertyMap',
           diffs |-> m_propDiffAreas', objs |-> objs', kids |-> kids',
           calls |-> 0, deletes |-> 0],
          nbox', m_mergeSettings')

\* C31: a Merge() called after a merge has returned, with no AddObject in
\* between, returns from GetAllPolygons the multiset of polygons that was
\* returned before it.
C31_MergeAgainKeepsPolygons ==
    [][(pc = "done" /\ m_datas = <<>> /\ pc' = "region")
          => BagOfSeq(PolygonsOf(MergedAgain)) = BagOfSeq(OutputPolygons)]_vars

\* the groups of overlapping children the pass of the next MergeRegion body
\* works on
PassGroups == GetOverlappedSubTaskNodes(kids, nbox, Head(todo))

Referenced(o, k, datas) == Range(GetAllObjects(o, k, Root)) \cup Range(datas)

\* the delete expressions the call or the part of a call that this step takes
\* executes
DeletesOfStep ==
    IF pc = "region" /\ todo # <<>>
    THEN MergeRegionBody(Machine, nbox, m_mergeSettings, Head(todo)).deletes
    ELSE IF pc \in {"region", "tasks"} /\ pc' = "done"
    THEN PostProcess(Machine, m_datas, m_mergeSettings).deletes
    ELSE IF pc = "tasks" /\ task' # task
              /\ \E n \in Nodes : task'[n] = "done" /\ task[n] # "done"
    THEN MergeRegion(Machine, nbox, m_mergeSettings,
                     CHOOSE n \in Nodes :
                         task'[n] = "done" /\ task[n] # "done").deletes
    ELSE 0

\* C33: every record is destroyed at most once (a step executes as many
\* delete expressions as it adds records to the destroyed ones, and Clear
\* deletes a list of distinct records none of which is destroyed), and no
\* destroyed record is referenced by the task tree or the pending list, or
\* returned by GetAllPolygons, after the step.
C33_DestroyedOnce ==
    [][/\ Clear =>
              /\ Range(Outputs) \cap freed = {}
              /\ Cardinality(Range(Outputs)) = Len(Outputs)
       /\ ~Clear =>
              /\ freed \subseteq freed'
              /\ DeletesOfStep = Cardinality(freed' \ freed)
       /\ Referenced(objs', kids', m_datas') \cap freed' = {}
       /\ pc' \in {"idle", "done"}
              => Range(GetAllPolygons([objs |-> objs', kids |-> kids'],
                                      m_datas')) \cap freed' = {}]_vars

\* a merge with the area filter on has returned, three records have been
\* destroyed and GetAllPolygons returns records
C33_Witness ==
    /\ pc = "done"
    /\ Cardinality(freed) >= 3
    /\ Outputs # <<>>
    /\ m_mergeSettings.ignoreTinySolid

\* C34: with cleanPolyonPoints false a Merge() runs the simplifier neither in
\* PreProcess nor in PostProcess, whatever cleanPointDist is: the records it
\* started from are as they were and the record it made is as makePolygonData
\* left it.
C34_NoCleanupWithoutFlag ==
    [][(pc = "idle" /\ pc' = "done" /\ ~m_mergeSettings.cleanPolyonPoints)
          => \E o \in PolylineChoices : \E prop \in Props :
                 heap' = heap \o <<makePolygonDataPts(o, prop)>>]_vars

\* C35: with checkPropertyDiff false, once Merge() has returned no polygon
\* GetAllPolygons returns carries a property that is a key of the property
\* map.
C35_OutputsCanonical ==
    (pc = "done" /\ ~m_mergeSettings.checkPropertyDiff)
        => \A k \in 1..Len(OutputPolygons) :
               m_propertyMap[OutputPolygons[k].property] = 0

====
